---- MODULE Spec2Model ----
(***************************************************************************)
(* Model of dendropy/splits.py: the split encoder (encode_splits), the     *)
(* rendering helpers and the SplitDistribution aggregator.                 *)
(*                                                                         *)
(* Masks are Python integers (unbounded), modelled as naturals with the    *)
(* bitwise operators computed bit by bit.  A Python value that may be      *)
(* None is modelled as a sequence of length 0 (None) or 1 (the value).     *)
(* A dict is a function whose DOMAIN is the key set.  An edge is named by  *)
(* its head node.  A float quotient is a reduced fraction <<num, den>>.    *)
(***************************************************************************)
EXTENDS Integers, Sequences, FiniteSets, Bags, TLC

\* ------------------------------------------------------------------ bounds

\* cap on the number of count_splits_on_tree calls in one run
MaxTrees == 3

\* largest number of nodes of an enumerated tree
MaxNodes == 5

\* ------------------------------------------------------------ bit algebra

RECURSIVE BitOr(_, _)
\* Python `a | b` on non-negative integers
BitOr(a, b) ==
    IF a = 0 THEN b
    ELSE IF b = 0 THEN a
    ELSE (IF (a % 2) + (b % 2) > 0 THEN 1 ELSE 0) + 2 * BitOr(a \div 2, b \div 2)

RECURSIVE BitXor(_, _)
\* Python `a ^ b` on non-negative integers
BitXor(a, b) ==
    IF a = 0 THEN b
    ELSE IF b = 0 THEN a
    ELSE (((a % 2) + (b % 2)) % 2) + 2 * BitXor(a \div 2, b \div 2)

RECURSIVE BitAnd(_, _)
\* Python `a & b`; a may be -1 (all ones in two's complement), b is >= 0
BitAnd(a, b) ==
    IF a = -1 THEN b
    ELSE IF a = 0 \/ b = 0 THEN 0
    ELSE ((a % 2) * (b % 2)) + 2 * BitAnd(a \div 2, b \div 2)

RECURSIVE ShiftLeft1(_)
\* Python `1 << i`
ShiftLeft1(i) == IF i = 0 THEN 1 ELSE 2 * ShiftLeft1(i - 1)

RECURSIVE GCD(_, _)
GCD(a, b) == IF b = 0 THEN a ELSE GCD(b, a % b)

\* float(n) / d, kept exact as a reduced fraction
Quotient(n, d) == LET g == GCD(n, d) IN <<n \div g, d \div g>>

\* dict[k] = v
Put(f, k, v) == [x \in (DOMAIN f) \cup {k} |-> IF x = k THEN v ELSE f[x]]

\* the empty dict
EmptyDict == [x \in {} |-> 0]

RECURSIVE SortedSeq(_)
\* iteration order of a Python set of small non-negative ints: ascending
SortedSeq(S) ==
    IF S = {} THEN <<>>
    ELSE LET lo == CHOOSE x \in S : \A y \in S : x <= y
         IN <<lo>> \o SortedSeq(S \ {lo})

\* ------------------------------------------------------- taxon registry

\* the shared registry: taxon at position i has bit index i-1
taxa_block == <<"A", "B", "C", "D">>

\* taxon in taxa_block
HasTaxon(tb, taxon) == \E i \in 1..Len(tb) : tb[i] = taxon

\* taxa_block.index(taxon), 0-based
TaxonIndex(tb, taxon) == (CHOOSE i \in 1..Len(tb) : tb[i] = taxon) - 1

\* taxa_block.taxon_bitmask(taxon)
taxon_bitmask(tb, taxon) == ShiftLeft1(TaxonIndex(tb, taxon))

RECURSIVE OrBitsUpTo(_, _)
OrBitsUpTo(tb, n) ==
    IF n = 0 THEN 0 ELSE BitOr(OrBitsUpTo(tb, n - 1), taxon_bitmask(tb, tb[n]))

\* taxa_block.all_taxa_bitmask()
all_taxa_bitmask(tb) == OrBitsUpTo(tb, Len(tb))

\* --------------------------------------------------------------- trees

\* attributes encode_splits has not attached yet
NoAttrs(n) ==
    [split_mask |-> [v \in 1..n |-> <<>>],
     split_edges |-> <<>>, split_taxa |-> <<>>, splits |-> <<>>,
     complemented_splits |-> <<>>, complemented_split_edges |-> <<>>]

\* a freshly built tree object
MkTree(name, children, taxon, length) ==
    [name |-> name, root |-> 1, children |-> children, taxon |-> taxon,
     length |-> length] @@ NoAttrs(Len(children))

\* ((A:1,B):2,(C:1,D:1):1) - rooted, the root has two children
TreeRooted ==
    MkTree("rooted",
           << <<2, 5>>, <<3, 4>>, <<>>, <<>>, <<6, 7>>, <<>>, <<>> >>,
           << <<>>, <<>>, <<"A">>, <<"B">>, <<>>, <<"C">>, <<"D">> >>,
           << <<>>, <<2>>, <<1>>, <<>>, <<1>>, <<1>>, <<1>> >>)

\* (A:1,C,(B:2,D:1):1) - basal trifurcation, another topology
TreeUnrooted ==
    MkTree("unrooted",
           << <<2, 3, 4>>, <<>>, <<>>, <<5, 6>>, <<>>, <<>> >>,
           << <<>>, <<"A">>, <<"C">>, <<>>, <<"B">>, <<"D">> >>,
           << <<>>, <<1>>, <<>>, <<1>>, <<2>>, <<1>> >>)

\* ((A,B):1,C:2,_) - incomplete leaf set (no D) and a leaf without a taxon
TreeIncomplete ==
    MkTree("incomplete",
           << <<2, 5, 6>>, <<3, 4>>, <<>>, <<>>, <<>>, <<>> >>,
           << <<>>, <<>>, <<"A">>, <<"B">>, <<"C">>, <<>> >>,
           << <<>>, <<1>>, <<>>, <<>>, <<2>>, <<>> >>)

\* (A:1,X:1,B:1) - X is not in the registry
TreeUnregistered ==
    MkTree("unregistered",
           << <<2, 3, 4>>, <<>>, <<>>, <<>> >>,
           << <<>>, <<"A">>, <<"X">>, <<"B">> >>,
           << <<>>, <<1>>, <<1>>, <<1>> >>)

\* (A:1,((B:1,D:1):2):3,C) - the node above (B,D) has that one child, so the two
\* edges 5 (length 2) and 3 (length 3) carry the same leaves
TreeDoubled ==
    MkTree("doubled",
           << <<2, 3, 4>>, <<>>, <<5>>, <<>>, <<6, 7>>, <<>>, <<>> >>,
           << <<>>, <<"A">>, <<>>, <<"C">>, <<>>, <<"B">>, <<"D">> >>,
           << <<>>, <<1>>, <<3>>, <<>>, <<2>>, <<1>>, <<1>> >>)

\* the trees a caller may hand to the encoder or the aggregator
Trees == {TreeRooted, TreeUnrooted, TreeIncomplete, TreeUnregistered, TreeDoubled}

TreeNames == {t.name : t \in Trees}

TreeNamed(name) == CHOOSE t \in Trees : t.name = name

\* what an enumerated leaf may carry: no taxon, a registered one, an unregistered one
LeafTaxa == {<<>>, <<"A">>, <<"D">>, <<"X">>}

\* the rooted shapes on nodes 1..n: node 1 is the root, the parent of i > 1 is below i
Shapes(n) == {p \in [2..n -> 1..n] : \A i \in 2..n : p[i] < i}

\* the leaves of shape p
ShapeLeaves(n, p) == {v \in 1..n : \A i \in 2..n : p[i] # v}

\* the tree of shape p whose leaves carry tx; every non-root edge has length 1
ShapedTree(n, p, tx) ==
    MkTree("enumerated",
           [v \in 1..n |-> SortedSeq({i \in 2..n : p[i] = v})],
           [v \in 1..n |-> IF v \in DOMAIN tx THEN tx[v] ELSE <<>>],
           [v \in 1..n |-> IF v = 1 THEN <<>> ELSE <<1>>])

RECURSIVE Postorder(_, _)
RECURSIVE PostorderOfList(_, _)
\* nodes below and including v, children strictly before their parent
Postorder(tr, v) == PostorderOfList(tr, tr.children[v]) \o <<v>>
PostorderOfList(tr, ch) ==
    IF ch = <<>> THEN <<>>
    ELSE Postorder(tr, Head(ch)) \o PostorderOfList(tr, Tail(ch))

\* tree.postorder_edge_iter(): the edge of every node, the root's included
postorder_edge_iter(tr) == Postorder(tr, tr.root)

\* the nodes of the tree
NodesOf(tr) ==
    LET order == postorder_edge_iter(tr) IN {order[i] : i \in 1..Len(order)}

\* the leaves of the tree
LeavesOf(tr) == {v \in NodesOf(tr) : tr.children[v] = <<>>}

\* tree.normalize_taxa(taxa_block) succeeds: every taxon of the tree is registered
NormalizeOk(tr, tb) ==
    \A v \in NodesOf(tr) : tr.taxon[v] # <<>> => HasTaxon(tb, tr.taxon[v][1])

\* edge.collapse(): the children of v take v's place in its parent's child list
RECURSIVE SpliceChildren(_, _, _)
SpliceChildren(ch, v, repl) ==
    IF ch = <<>> THEN <<>>
    ELSE (IF Head(ch) = v THEN repl ELSE <<Head(ch)>>) \o SpliceChildren(Tail(ch), v, repl)

\* tree.deroot(): a root of degree 2 becomes a root of degree 3
deroot(tr) ==
    LET ch == tr.children[tr.root] IN
    IF Len(ch) # 2 THEN tr
    ELSE IF Len(tr.children[ch[2]]) < 2 /\ Len(tr.children[ch[1]]) < 2 THEN tr
    ELSE LET to_del  == IF Len(tr.children[ch[2]]) >= 2 THEN ch[2] ELSE ch[1]
             to_keep == IF Len(tr.children[ch[2]]) >= 2 THEN ch[1] ELSE ch[2]
             newlen  == IF tr.length[to_keep] # <<>> /\ tr.length[to_del] # <<>>
                        THEN <<tr.length[to_keep][1] + tr.length[to_del][1]>>
                        ELSE tr.length[to_keep]
         IN [tr EXCEPT !.length[to_keep] = newlen,
                       !.children[tr.root] = SpliceChildren(ch, to_del, tr.children[to_del]),
                       !.children[to_del] = <<>>]

RECURSIVE distance_from_tip(_, _)
RECURSIVE MinTipDistance(_, _)
\* node.distance_from_tip(): distance to the nearest descendant tip
distance_from_tip(tr, v) ==
    IF tr.children[v] = <<>> THEN 0 ELSE MinTipDistance(tr, tr.children[v])
MinTipDistance(tr, ch) ==
    LET c == Head(ch)
        d == (IF tr.length[c] # <<>> THEN tr.length[c][1] ELSE 0) + distance_from_tip(tr, c)
    IN IF Len(ch) = 1 THEN d
       ELSE LET r == MinTipDistance(tr, Tail(ch)) IN IF d < r THEN d ELSE r

\* ------------------------------------------------- rendering utilities

\* faulty variant: (split+1) & split
is_non_singleton_split_PlusOne(split) == BitAnd(split + 1, split)

\* faulty variant: tests only that the split is non-zero
is_non_singleton_split_NonZero(split) == split

\* is_non_singleton_split(split): the integer (split-1) & split, truthy when non-zero
is_non_singleton_split(split) == BitAnd(split - 1, split)

RECURSIVE number_to_bitstring(_)
\* number_to_bitstring(num): the characters '0' and '1', most significant first, '' for 0
number_to_bitstring(num) ==
    IF num > 0 THEN number_to_bitstring(num \div 2) \o <<(IF num % 2 = 1 THEN "1" ELSE "0")>>
    ELSE <<>>

RECURSIVE split_taxa_list_IndexInsideIf(_, _, _)
\* faulty variant: index += 1 sits inside the if, so it advances at set bits only
split_taxa_list_IndexInsideIf(split_mask, tb, index) ==
    IF split_mask = 0 THEN <<>>
    ELSE IF split_mask % 2 = 1
         THEN <<tb[index + 1]>> \o split_taxa_list_IndexInsideIf(split_mask \div 2, tb, index + 1)
         ELSE split_taxa_list_IndexInsideIf(split_mask \div 2, tb, index)

RECURSIVE split_taxa_list_raises(_, _, _)
\* line 73 raises IndexError: a set bit is met at an index past the end of taxa_block
split_taxa_list_raises(split_mask, tb, index) ==
    IF split_mask = 0 THEN FALSE
    ELSE IF split_mask % 2 = 1 /\ index >= Len(tb) THEN TRUE
         ELSE split_taxa_list_raises(split_mask \div 2, tb, index + 1)

RECURSIVE split_taxa_list(_, _, _)
\* split_taxa_list(split_mask, taxa_block, index): taxa at the set bits, low to high
split_taxa_list(split_mask, tb, index) ==
    IF split_mask = 0 THEN <<>>
    ELSE (IF split_mask % 2 = 1 THEN <<tb[index + 1]>> ELSE <<>>)
         \o split_taxa_list(split_mask \div 2, tb, index + 1)

\* str.rjust(width, fillchar): pads on the left up to width, never truncates
rjust(s, width, fillchar) ==
    IF Len(s) >= width THEN s ELSE [i \in 1..(width - Len(s)) |-> fillchar] \o s

\* str.replace(old, new) for one-character old and new: every occurrence, at once
replace(s, old, new) == [i \in DOMAIN s |-> IF s[i] = old THEN new ELSE s[i]]

\* s[::-1]
reversed(s) == [i \in DOMAIN s |-> s[Len(s) + 1 - i]]

\* split_as_string(split_mask, taxa_block, symbol1, symbol2): lines 52-54, the second
\* replace runs over the result of the first
split_as_string(split_mask, tb, symbol1, symbol2) ==
    LET s == rjust(number_to_bitstring(split_mask), Len(tb), "0")
    IN replace(replace(s, "0", symbol1), "1", symbol2)

\* split_as_string_rev(split_mask, taxa_block, symbol1, symbol2)
split_as_string_rev(split_mask, tb, symbol1, symbol2) ==
    reversed(split_as_string(split_mask, tb, symbol1, symbol2))

\* ------------------------------------------------------- split encoder

\* faulty variant: the mask of the last child replaces the OR of all of them
InternalMask_LastChild(split_mask, children, acc) ==
    IF children = <<>> THEN acc ELSE split_mask[children[Len(children)]][1]

RECURSIVE InternalMask(_, _, _)
\* lines 103-105: start from 0 and OR in the mask of every child edge
InternalMask(split_mask, children, acc) ==
    IF children = <<>> THEN acc
    ELSE InternalMask(split_mask, Tail(children), BitOr(acc, split_mask[Head(children)][1]))

\* faulty variant: the taxon's index is used where its bit is meant
LeafMask_Index(tr, tb, edge) ==
    IF tr.taxon[edge] # <<>> THEN TaxonIndex(tb, tr.taxon[edge][1]) ELSE 0

\* lines 107-110: the mask of a leaf edge (the lookup is known to succeed)
LeafMask(tr, tb, edge) ==
    IF tr.taxon[edge] # <<>> THEN taxon_bitmask(tb, tr.taxon[edge][1]) ELSE 0

\* line 108 raises: the leaf carries a taxon the registry does not hold
LeafLookupFails(tr, tb, edge) ==
    tr.children[edge] = <<>> /\ tr.taxon[edge] # <<>> /\ ~HasTaxon(tb, tr.taxon[edge][1])

\* lines 101-110: the mask of one edge, given the masks set so far
EdgeMask(tr, tb, edge, split_mask) ==
    IF tr.children[edge] # <<>> THEN InternalMask(split_mask, tr.children[edge], 0)
    ELSE LeafMask(tr, tb, edge)

RECURSIVE EncodeEdges_FirstWins(_, _, _, _, _)
\* faulty variant: a mask already in split_map keeps the edge it was first met on
EncodeEdges_FirstWins(tr, tb, order, i, acc) ==
    IF i > Len(order) THEN acc
    ELSE LET edge == order[i] IN
         IF LeafLookupFails(tr, tb, edge) THEN [acc EXCEPT !.ok = FALSE]
         ELSE LET m == EdgeMask(tr, tb, edge, acc.split_mask)
              IN EncodeEdges_FirstWins(tr, tb, order, i + 1,
                     [ok |-> TRUE,
                      split_mask |-> [acc.split_mask EXCEPT ![edge] = <<m>>],
                      split_map |-> IF m \in DOMAIN acc.split_map THEN acc.split_map
                                    ELSE Put(acc.split_map, m, edge)])

RECURSIVE EncodeEdges(_, _, _, _, _)
\* lines 99-111: the loop over the edges in postorder; acc.ok turns FALSE at a raise
EncodeEdges(tr, tb, order, i, acc) ==
    IF i > Len(order) THEN acc
    ELSE LET edge == order[i] IN
         IF LeafLookupFails(tr, tb, edge) THEN [acc EXCEPT !.ok = FALSE]
         ELSE LET m == EdgeMask(tr, tb, edge, acc.split_mask)
              IN EncodeEdges(tr, tb, order, i + 1,
                     [ok |-> TRUE,
                      split_mask |-> [acc.split_mask EXCEPT ![edge] = <<m>>],
                      split_map |-> Put(acc.split_map, m, edge)])

\* faulty variant: the split is stored uncomplemented
Complement_Same(split, taxa_mask) == split

\* faulty variant: Python's ~split, not masked to the taxa of the registry
Complement_Unmasked(split, taxa_mask) == (0 - split) - 1

\* line 125: the complemented split
Complement(split, taxa_mask) == BitXor(split, taxa_mask)

\* faulty variant: every complemented split is mapped to one and the same edge, the
\* edge of the last key
ComplementEdges_LastEdge(split_map, keys, taxa_mask, csplit_edges) ==
    [c \in {Complement(keys[i], taxa_mask) : i \in 1..Len(keys)} |->
        split_map[keys[Len(keys)]]]

RECURSIVE ComplementEdges(_, _, _, _)
\* lines 123-126: csplit_edges, filled in the iteration order of split_map
ComplementEdges(split_map, keys, taxa_mask, csplit_edges) ==
    IF keys = <<>> THEN csplit_edges
    ELSE ComplementEdges(split_map, Tail(keys), taxa_mask,
             Put(csplit_edges, Complement(Head(keys), taxa_mask), split_map[Head(keys)]))

\* faulty variant: the attributes are attached on the way out of the call whether it
\* raised or not (as from a finally clause), so a raise leaves the partial map behind
encode_splits_AttachesPartial(tr, tb, with_split_taxa) ==
    LET loop == EncodeEdges(tr, tb, postorder_edge_iter(tr), 1,
                    [ok |-> TRUE, split_mask |-> tr.split_mask, split_map |-> EmptyDict])
        split_map == loop.split_map
        csplit_edges == ComplementEdges(split_map, SortedSeq(DOMAIN split_map),
                            all_taxa_bitmask(tb), EmptyDict)
    IN [ok |-> loop.ok,
        tree |-> [tr EXCEPT
            !.split_mask = loop.split_mask,
            !.split_edges = <<split_map>>,
            !.split_taxa = IF with_split_taxa
                           THEN << [s \in DOMAIN split_map |-> split_taxa_list(s, tb, 0)] >>
                           ELSE tr.split_taxa,
            !.splits = <<DOMAIN split_map>>,
            !.complemented_splits = <<DOMAIN csplit_edges>>,
            !.complemented_split_edges = <<csplit_edges>>],
        split_map |-> IF loop.ok THEN split_map ELSE EmptyDict]

\* encode_splits(tree, taxa_block, tree_split_taxa_map = "split_taxa" or None):
\* [ok, tree, split_map]; ok = FALSE is the exception leaving the call
encode_splits(tr, tb, with_split_taxa) ==
    LET loop == EncodeEdges(tr, tb, postorder_edge_iter(tr), 1,
                    [ok |-> TRUE, split_mask |-> tr.split_mask, split_map |-> EmptyDict])
        split_map == loop.split_map
        csplit_edges == ComplementEdges(split_map, SortedSeq(DOMAIN split_map),
                            all_taxa_bitmask(tb), EmptyDict)
    IN IF ~loop.ok
       THEN [ok |-> FALSE, tree |-> [tr EXCEPT !.split_mask = loop.split_mask],
             split_map |-> EmptyDict]
       ELSE [ok |-> TRUE,
             tree |-> [tr EXCEPT
                 !.split_mask = loop.split_mask,
                 !.split_edges = <<split_map>>,
                 !.split_taxa = IF with_split_taxa
                                THEN << [s \in DOMAIN split_map |-> split_taxa_list(s, tb, 0)] >>
                                ELSE tr.split_taxa,
                 !.splits = <<DOMAIN split_map>>,
                 !.complemented_splits = <<DOMAIN csplit_edges>>,
                 !.complemented_split_edges = <<csplit_edges>>],
             split_map |-> split_map]

\* ---------------------------------------------------- SplitDistribution

VARIABLES
    self,     \* the SplitDistribution object: its fields
    tree,     \* the tree object the caller holds (the one handed over last)
    calls,    \* history: per tree, how often it was handed to count_splits_on_tree
    el_all,   \* history: every count so far ran with edge-length tracking on
    call      \* the call of a rendering utility in hand: its arguments, position and result

vars == <<self, tree, calls, el_all, call>>

\* no rendering call in hand
NoCall == [op |-> "none", pc |-> "idle"]

\* SplitDistribution.__init__
SplitDistributionInit ==
    [total_trees_counted |-> 0,
     splits |-> <<>>,
     complemented_splits |-> <<>>,
     split_counts |-> EmptyDict,
     complemented_split_counts |-> EmptyDict,
     split_edge_lengths |-> EmptyDict,
     split_node_ages |-> EmptyDict,
     ignore_edge_lengths |-> FALSE,
     ignore_node_ages |-> FALSE,
     split_freqs |-> <<>>,
     complemented_split_freqs |-> <<>>,
     trees_counted_for_freqs |-> 0]

\* lines 174-179: one key of split_counts folded into the four sums
ConsiderSplit(acc, s, n) ==
    IF is_non_singleton_split(s) # 0
    THEN <<acc[1] + n, acc[2] + 1, acc[3] + n, acc[4] + 1>>
    ELSE <<acc[1] + n, acc[2] + 1, acc[3], acc[4]>>

RECURSIVE ConsiderSplits(_, _, _)
ConsiderSplits(split_counts, keys, acc) ==
    IF keys = <<>> THEN acc
    ELSE ConsiderSplits(split_counts, Tail(keys),
             ConsiderSplit(acc, Head(keys), split_counts[Head(keys)]))

\* splits_considered()
splits_considered(sd) ==
    ConsiderSplits(sd.split_counts, SortedSeq(DOMAIN sd.split_counts), <<0, 0, 0, 0>>)

\* lines 188-191: the divisor
FreqTotal(total_trees_counted) ==
    IF total_trees_counted = 0 THEN 1 ELSE total_trees_counted

\* lines 192-195: one frequency map
Freqs(counts, total) == [split \in DOMAIN counts |-> Quotient(counts[split], total)]

\* faulty variant: line 196 is missing, the count the cache was built at is not recorded
calc_freqs_NoRecord(sd) ==
    [sd EXCEPT
        !.split_freqs = << Freqs(sd.split_counts, FreqTotal(sd.total_trees_counted)) >>,
        !.complemented_split_freqs =
            << Freqs(sd.complemented_split_counts, FreqTotal(sd.total_trees_counted)) >>]

\* calc_freqs()
calc_freqs(sd) ==
    [sd EXCEPT
        !.split_freqs = << Freqs(sd.split_counts, FreqTotal(sd.total_trees_counted)) >>,
        !.complemented_split_freqs =
            << Freqs(sd.complemented_split_counts, FreqTotal(sd.total_trees_counted)) >>,
        !.trees_counted_for_freqs = sd.total_trees_counted]

\* faulty variant: the cache is rebuilt only when it was never built
CacheStale_OnlyNone(cache, trees_counted_for_freqs, total_trees_counted) ==
    cache = <<>>

\* lines 203 and 213: the cache has to be rebuilt
CacheStale(cache, trees_counted_for_freqs, total_trees_counted) ==
    cache = <<>> \/ trees_counted_for_freqs # total_trees_counted

\* _get_split_frequencies(): [self, ret, recalc]
get_split_frequencies(sd) ==
    LET stale == CacheStale(sd.split_freqs, sd.trees_counted_for_freqs, sd.total_trees_counted)
        sd2 == IF stale THEN calc_freqs(sd) ELSE sd
    IN [self |-> sd2, ret |-> sd2.split_freqs[1], recalc |-> stale]

\* _get_complemented_split_frequencies(): [self, ret, recalc]
get_complemented_split_frequencies(sd) ==
    LET stale == CacheStale(sd.complemented_split_freqs, sd.trees_counted_for_freqs,
                            sd.total_trees_counted)
        sd2 == IF stale THEN calc_freqs(sd) ELSE sd
    IN [self |-> sd2, ret |-> sd2.complemented_split_freqs[1], recalc |-> stale]

\* faulty variant: a split seen again is set to 1 instead of incremented
BumpCount_Reset(counts, split) == Put(counts, split, 1)

\* lines 230-234: the count of one split
BumpCount(counts, split) ==
    IF split \notin DOMAIN counts THEN Put(counts, split, 1)
    ELSE [counts EXCEPT ![split] = @ + 1]

\* faulty variant: an edge without a length adds no sample
AddEdgeLength_SkipNone(lengths, split, length) ==
    LET old == IF split \notin DOMAIN lengths THEN <<>> ELSE lengths[split]
    IN Put(lengths, split, IF length # <<>> THEN Append(old, length[1]) ELSE old)

\* lines 236-241: the edge-length sample of one split
AddEdgeLength(lengths, split, length) ==
    LET old == IF split \notin DOMAIN lengths THEN <<>> ELSE lengths[split]
    IN Put(lengths, split, Append(old, IF length # <<>> THEN length[1] ELSE 0))

\* faulty variant: the sample replaces the list where it is meant to be appended
AddNodeAge_Replace(ages, split, age) == Put(ages, split, <<age>>)

\* lines 243-247: the node-age sample of one split (an edge always has a head node)
AddNodeAge(ages, split, age) ==
    LET old == IF split \notin DOMAIN ages THEN <<>> ELSE ages[split]
    IN Put(ages, split, Append(old, age))

\* lines 230-247: the body of the loop over tree.splits
CountSplit(sd, tr, split) ==
    LET edge == tr.split_edges[1][split] IN
    [sd EXCEPT
        !.splits = IF split \notin DOMAIN sd.split_counts THEN Append(@, split) ELSE @,
        !.split_counts = BumpCount(@, split),
        !.split_edge_lengths =
            IF ~sd.ignore_edge_lengths THEN AddEdgeLength(@, split, tr.length[edge]) ELSE @,
        !.split_node_ages =
            IF ~sd.ignore_node_ages THEN AddNodeAge(@, split, distance_from_tip(tr, edge)) ELSE @]

\* lines 249-253: the body of the loop over tree.complemented_splits
CountComplementedSplit(sd, split) ==
    [sd EXCEPT
        !.complemented_splits =
            IF split \notin DOMAIN sd.complemented_split_counts THEN Append(@, split) ELSE @,
        !.complemented_split_counts = BumpCount(@, split)]

RECURSIVE CountSplits(_, _, _)
CountSplits(sd, tr, todo) ==
    IF todo = <<>> THEN sd
    ELSE CountSplits(CountSplit(sd, tr, Head(todo)), tr, Tail(todo))

RECURSIVE CountComplementedSplits(_, _)
CountComplementedSplits(sd, todo) ==
    IF todo = <<>> THEN sd
    ELSE CountComplementedSplits(CountComplementedSplit(sd, Head(todo)), Tail(todo))

\* faulty variant: the tree is encoded as it comes, deroot is not called
count_splits_on_tree_NoDeroot(sd, tr) ==
    LET sd1 == [sd EXCEPT !.total_trees_counted = @ + 1] IN
    IF ~NormalizeOk(tr, taxa_block) THEN [ok |-> FALSE, self |-> sd1, tree |-> tr]
    ELSE LET enc == encode_splits(tr, taxa_block, FALSE) IN
         IF ~enc.ok THEN [ok |-> FALSE, self |-> sd1, tree |-> enc.tree]
         ELSE [ok |-> TRUE,
               self |-> CountComplementedSplits(
                            CountSplits(sd1, enc.tree, SortedSeq(enc.tree.splits[1])),
                            SortedSeq(enc.tree.complemented_splits[1])),
               tree |-> enc.tree]

\* faulty variant: the loop runs over the masks of the edges, one pass per edge, where
\* it is meant to run over the set tree.splits
count_splits_on_tree_PerEdge(sd, tr) ==
    LET sd1 == [sd EXCEPT !.total_trees_counted = @ + 1] IN
    IF ~NormalizeOk(tr, taxa_block) THEN [ok |-> FALSE, self |-> sd1, tree |-> tr]
    ELSE LET enc == encode_splits(deroot(tr), taxa_block, FALSE)
             order == postorder_edge_iter(enc.tree)
         IN
         IF ~enc.ok THEN [ok |-> FALSE, self |-> sd1, tree |-> enc.tree]
         ELSE [ok |-> TRUE,
               self |-> CountComplementedSplits(
                            CountSplits(sd1, enc.tree,
                                [i \in 1..Len(order) |-> enc.tree.split_mask[order[i]][1]]),
                            SortedSeq(enc.tree.complemented_splits[1])),
               tree |-> enc.tree]

\* count_splits_on_tree(tree): [ok, self, tree]; ok = FALSE is the exception leaving the call
count_splits_on_tree(sd, tr) ==
    LET sd1 == [sd EXCEPT !.total_trees_counted = @ + 1] IN
    IF ~NormalizeOk(tr, taxa_block) THEN [ok |-> FALSE, self |-> sd1, tree |-> tr]
    ELSE LET enc == encode_splits(deroot(tr), taxa_block, FALSE) IN
         IF ~enc.ok THEN [ok |-> FALSE, self |-> sd1, tree |-> enc.tree]
         ELSE [ok |-> TRUE,
               self |-> CountComplementedSplits(
                            CountSplits(sd1, enc.tree, SortedSeq(enc.tree.splits[1])),
                            SortedSeq(enc.tree.complemented_splits[1])),
               tree |-> enc.tree]

\* ------------------------------------------------------------- actions

Init ==
    /\ self = SplitDistributionInit
    /\ tree \in Trees
    /\ calls = [n \in TreeNames |-> 0]
    /\ el_all = TRUE
    /\ call = NoCall

\* self.count_splits_on_tree(t): t is a newly built tree, or the tree handed over last
CountTree ==
    \E t \in Trees \cup {tree} :
        /\ self.total_trees_counted < MaxTrees
        /\ LET r == count_splits_on_tree(self, t) IN
            /\ self' = r.self
            /\ tree' = r.tree
        /\ calls' = [calls EXCEPT ![t.name] = @ + 1]
        /\ el_all' = (el_all /\ ~self.ignore_edge_lengths)
        /\ UNCHANGED call

\* self.splits_considered(): a pure read
SplitsConsidered ==
    /\ splits_considered(self) \in Seq(Nat)
    /\ UNCHANGED vars

\* self.calc_freqs()
CalcFreqs ==
    /\ self' = calc_freqs(self)
    /\ UNCHANGED <<tree, calls, el_all, call>>

\* self.split_frequencies
SplitFrequencies ==
    /\ self' = get_split_frequencies(self).self
    /\ UNCHANGED <<tree, calls, el_all, call>>

\* self.complemented_split_frequencies
ComplementedSplitFrequencies ==
    /\ self' = get_complemented_split_frequencies(self).self
    /\ UNCHANGED <<tree, calls, el_all, call>>

\* self.ignore_edge_lengths = b
SetIgnoreEdgeLengths ==
    \E b \in BOOLEAN :
        /\ self' = [self EXCEPT !.ignore_edge_lengths = b]
        /\ UNCHANGED <<tree, calls, el_all, call>>

\* self.ignore_node_ages = b, configured before the first tree is counted
SetIgnoreNodeAges ==
    \E b \in BOOLEAN :
        /\ self.total_trees_counted = 0
        /\ self' = [self EXCEPT !.ignore_node_ages = b]
        /\ UNCHANGED <<tree, calls, el_all, call>>

Next ==
    \/ CountTree
    \/ SplitsConsidered
    \/ CalcFreqs
    \/ SplitFrequencies
    \/ ComplementedSplitFrequencies
    \/ SetIgnoreEdgeLengths
    \/ SetIgnoreNodeAges

Spec == Init /\ [][Next]_vars

\* ------------------------------------------- the encoder on its own

InitEncode ==
    /\ self = SplitDistributionInit
    /\ \/ tree \in Trees
       \/ \E n \in 1..MaxNodes : \E p \in Shapes(n) : \E tx \in [ShapeLeaves(n, p) -> LeafTaxa] :
              tree = ShapedTree(n, p, tx)
    /\ calls = [n \in TreeNames |-> 0]
    /\ el_all = TRUE
    /\ call = NoCall

\* tree.deroot()
DerootTree ==
    /\ tree' = deroot(tree)
    /\ UNCHANGED <<self, calls, el_all, call>>

\* encode_splits(tree, taxa_block), every option at its default
EncodeTree ==
    /\ tree' = encode_splits(tree, taxa_block, TRUE).tree
    /\ UNCHANGED <<self, calls, el_all, call>>

NextEncode ==
    \/ DerootTree
    \/ EncodeTree

SpecEncode == InitEncode /\ [][NextEncode]_vars

\* ------------------------------------------------- property vocabulary

\* the bit positions set in a non-negative mask
BitsOf(mask) == {i \in 0..7 : (mask \div (2 ^ i)) % 2 = 1}

\* the registry's full mask and the number of its taxa
FullMask == (2 ^ Len(taxa_block)) - 1

RECURSIVE SumOver(_, _)
\* the sum of f over the keys in S
SumOver(f, S) ==
    IF S = {} THEN 0
    ELSE LET k == CHOOSE x \in S : TRUE IN f[k] + SumOver(f, S \ {k})

\* the fraction q = <<num, den>> is the quotient a / b
IsQuotient(q, a, b) == q[2] > 0 /\ q[1] * b = a * q[2]

\* the divisor the specification gives: max(total_trees_counted, 1)
MaxWithOne(n) == IF n > 1 THEN n ELSE 1

\* per tree of the catalogue, the masks count_splits_on_tree finds on it (none when
\* the call fails)
SplitsOfTree ==
    [n \in TreeNames |->
        LET t == TreeNamed(n) IN
        IF NormalizeOk(t, taxa_block)
        THEN DOMAIN encode_splits(deroot(t), taxa_block, FALSE).split_map
        ELSE {}]

\* the count map a history of calls must give, whatever the order of the calls
CountsOf(history) ==
    LET keys == UNION {SplitsOfTree[n] : n \in {x \in TreeNames : history[x] > 0}}
    IN [m \in keys |-> SumOver(history, {n \in TreeNames : m \in SplitsOfTree[n]})]

\* the tree held is the result of a count that succeeded, and it was the last call
LastCountSucceeded == self.total_trees_counted > 0 /\ tree.splits # <<>>

\* ------------------------------------------------------------- claims

\* C1: a count_splits_on_tree call that fails (the tree references a taxon the
\* registry does not hold) leaves total_trees_counted, the counts, the complement
\* counts, the samples and the frequencies reported afterwards as they were.
\* The code increments total_trees_counted (line 223) before it normalizes.
C1_FailedCountLeavesStateUntouched ==
    [][\A n \in TreeNames :
          (calls'[n] # calls[n] /\ ~NormalizeOk(TreeNamed(n), taxa_block))
          => /\ self'.total_trees_counted = self.total_trees_counted
             /\ self'.split_counts = self.split_counts
             /\ self'.complemented_split_counts = self.complemented_split_counts
             /\ self'.split_edge_lengths = self.split_edge_lengths
             /\ self'.split_node_ages = self.split_node_ages
             /\ get_split_frequencies(self').ret = get_split_frequencies(self).ret]_vars

\* C2: in every reachable state the map split_frequencies returns holds, for every
\* counted split m, split_counts[m] / max(total_trees_counted, 1) of the current
\* counters, and so does complemented_split_frequencies for the complement counts;
\* no divisor is 0, before the first tree too.
C2_FrequenciesNeverStale ==
    LET f == get_split_frequencies(self).ret
        c == get_complemented_split_frequencies(self).ret
        d == MaxWithOne(self.total_trees_counted)
    IN /\ DOMAIN f = DOMAIN self.split_counts
       /\ \A m \in DOMAIN self.split_counts : IsQuotient(f[m], self.split_counts[m], d)
       /\ DOMAIN c = DOMAIN self.complemented_split_counts
       /\ \A m \in DOMAIN self.complemented_split_counts :
              IsQuotient(c[m], self.complemented_split_counts[m], d)

\* a cache built at an earlier count is still stored after more trees were counted
C2_Witness ==
    /\ self.split_freqs # <<>>
    /\ self.split_freqs[1] # EmptyDict
    /\ self.trees_counted_for_freqs < self.total_trees_counted
    /\ self.split_freqs[1] # Freqs(self.split_counts, self.total_trees_counted)

\* C3: from every reachable state, a read followed by a second read (of either map)
\* with no count in between returns the same map, the second read rebuilds nothing
\* and changes nothing; a read rebuilds only when the cache was never built or was
\* built at another total_trees_counted.
C3_RepeatedReadIsCacheRead ==
    LET f1 == get_split_frequencies(self)
        f2 == get_split_frequencies(f1.self)
        c1 == get_complemented_split_frequencies(self)
        c2 == get_complemented_split_frequencies(c1.self)
        fc == get_complemented_split_frequencies(f1.self)
        cf == get_split_frequencies(c1.self)
    IN /\ f2.ret = f1.ret /\ ~f2.recalc /\ f2.self = f1.self
       /\ c2.ret = c1.ret /\ ~c2.recalc /\ c2.self = c1.self
       /\ ~fc.recalc /\ fc.self = f1.self /\ fc.ret = c1.ret
       /\ ~cf.recalc /\ cf.self = c1.self /\ cf.ret = f1.ret
       /\ f1.recalc => (self.split_freqs = <<>>
                        \/ self.trees_counted_for_freqs # self.total_trees_counted)
       /\ c1.recalc => (self.complemented_split_freqs = <<>>
                        \/ self.trees_counted_for_freqs # self.total_trees_counted)

\* a read has built the cache at the current, non-zero count
C3_Witness ==
    /\ self.split_freqs # <<>>
    /\ self.split_freqs[1] # EmptyDict
    /\ self.total_trees_counted >= 2
    /\ self.trees_counted_for_freqs = self.total_trees_counted

\* C4: total_trees_counted, split_counts and complemented_split_counts are functions
\* of the multiset of trees handed to count_splits_on_tree: whatever the order and
\* grouping of the calls, they are the per-tree contributions added up.
C4_CountsDependOnlyOnMultiset ==
    LET expected == CountsOf(calls) IN
    /\ self.total_trees_counted = SumOver(calls, TreeNames)
    /\ self.split_counts = expected
    /\ DOMAIN self.complemented_split_counts = {FullMask - m : m \in DOMAIN expected}
    /\ \A m \in DOMAIN expected :
           self.complemented_split_counts[FullMask - m] = expected[m]

\* T1, T2 and T2 again have been counted
C4_Witness ==
    /\ calls["rooted"] = 1
    /\ calls["unrooted"] = 2
    /\ self.total_trees_counted = 3

\* C5: when every count ran with edge-length tracking on, every counted split has as
\* many edge-length samples as its count, and the sample the last counted tree added
\* is the length of the edge inducing the split, 0 when that edge has no length.
C5_OneEdgeLengthPerCount ==
    el_all =>
        /\ \A m \in DOMAIN self.split_counts :
               /\ m \in DOMAIN self.split_edge_lengths
               /\ Len(self.split_edge_lengths[m]) = self.split_counts[m]
        /\ LastCountSucceeded =>
               \A m \in tree.splits[1] :
                   LET edge == tree.split_edges[1][m]
                       samples == self.split_edge_lengths[m]
                   IN samples[Len(samples)] =
                          (IF tree.length[edge] = <<>> THEN 0 ELSE tree.length[edge][1])

\* a split counted twice with tracking on, one of its edges carrying no length
C5_Witness ==
    /\ el_all
    /\ LastCountSucceeded
    /\ \E m \in tree.splits[1] :
           /\ tree.length[tree.split_edges[1][m]] = <<>>
           /\ self.split_counts[m] >= 2
           /\ \E i \in 1..Len(self.split_edge_lengths[m]) : self.split_edge_lengths[m][i] > 0

\* C6: the complement counts mirror the counts: complemented_split_counts has exactly
\* the keys full_mask XOR m for m in split_counts, with the same values; after one
\* single, successful count every split of the tree has count 1, its complement has
\* complement count 1, total_trees_counted is 1 and the split's frequency is 1.
C6_ComplementCountsMirrorCounts ==
    /\ DOMAIN self.complemented_split_counts = {FullMask - m : m \in DOMAIN self.split_counts}
    /\ \A m \in DOMAIN self.split_counts :
           /\ BitsOf(m) \subseteq BitsOf(FullMask)
           /\ self.complemented_split_counts[FullMask - m] = self.split_counts[m]
    /\ (self.total_trees_counted = 1 /\ LastCountSucceeded) =>
           \A m \in tree.splits[1] :
               /\ self.split_counts[m] = 1
               /\ self.complemented_split_counts[FullMask - m] = 1
               /\ get_split_frequencies(self).ret[m] = <<1, 1>>

\* the tree separating {A,B} from {C,D} counted once: mask 3 counted, 12 its complement
C6_Witness ==
    /\ self.total_trees_counted = 1
    /\ LastCountSucceeded
    /\ 3 \in DOMAIN self.split_counts
    /\ 12 \in DOMAIN self.complemented_split_counts
    /\ 12 \notin DOMAIN self.split_counts

\* C7: splits_considered returns (sum of the counts, number of keys, sum of the counts
\* of the keys with at least two bits set, number of such keys); the two non-trivial
\* components never exceed the two totals.
C7_SplitsConsidered ==
    LET r == splits_considered(self)
        keys == DOMAIN self.split_counts
        nt == {m \in keys : Cardinality(BitsOf(m)) >= 2}
    IN /\ r = <<SumOver(self.split_counts, keys), Cardinality(keys),
                SumOver(self.split_counts, nt), Cardinality(nt)>>
       /\ r[3] <= r[1]
       /\ r[4] <= r[2]

\* mask 0, single-bit masks and masks of several bits are all counted, some twice
C7_Witness ==
    /\ 0 \in DOMAIN self.split_counts
    /\ 1 \in DOMAIN self.split_counts
    /\ 3 \in DOMAIN self.split_counts
    /\ self.split_counts[3] >= 2
    /\ splits_considered(self)[3] > 0
    /\ splits_considered(self)[3] < splits_considered(self)[1]

\* the tree held carries the attributes of a completed encode_splits call
Encoded == tree.split_edges # <<>>

\* the labelled leaves at or below node v
RECURSIVE LeavesBelow(_, _)
LeavesBelow(tr, v) ==
    IF tr.children[v] = <<>> THEN {v}
    ELSE UNION {LeavesBelow(tr, tr.children[v][i]) : i \in 1..Len(tr.children[v])}

\* the bit indices of the taxa carried by the leaves in L
TaxonBits(tr, L) ==
    {TaxonIndex(taxa_block, tr.taxon[l][1]) : l \in {x \in L : tr.taxon[x] # <<>>}}

\* the position of node v in the traversal
PositionIn(order, v) == CHOOSE i \in 1..Len(order) : order[i] = v

\* C8: after encode_splits the edges were visited children first, and every edge's
\* mask is the OR of the masks of the child edges of its head node, or the taxon's
\* single bit at a leaf with a taxon, or 0 at a leaf without one; so every mask is
\* exactly the set of taxon bits of the labelled leaves below the edge.
C8_EdgeMasks ==
    Encoded =>
        LET order == postorder_edge_iter(tree) IN
        \A v \in NodesOf(tree) :
            LET ch == tree.children[v]
                m == tree.split_mask[v][1]
            IN /\ tree.split_mask[v] # <<>>
               /\ \A i \in 1..Len(ch) : PositionIn(order, ch[i]) < PositionIn(order, v)
               /\ ch # <<>> =>
                      BitsOf(m) = UNION {BitsOf(tree.split_mask[ch[i]][1]) : i \in 1..Len(ch)}
               /\ (ch = <<>> /\ tree.taxon[v] # <<>>) =>
                      m = 2 ^ TaxonIndex(taxa_block, tree.taxon[v][1])
               /\ (ch = <<>> /\ tree.taxon[v] = <<>>) => m = 0
               /\ BitsOf(m) = TaxonBits(tree, LeavesBelow(tree, v))

\* an encoded tree with a leaf without taxon and an inner edge joining A and D
C8_Witness ==
    /\ Encoded
    /\ \E v \in NodesOf(tree) : v # tree.root /\ Len(tree.children[v]) >= 2
                                /\ tree.split_mask[v] = <<9>>
    /\ \E l \in LeavesOf(tree) : tree.taxon[l] = <<>> /\ tree.split_mask[l] = <<0>>

\* the tree is in its unrooted view and has been encoded against the registry
EncodedUnrooted == Encoded /\ deroot(tree) = tree

RECURSIVE OrOfMasks(_, _)
\* the OR of the masks of the edges in L
OrOfMasks(tr, L) ==
    IF L = {} THEN 0
    ELSE LET l == CHOOSE x \in L : TRUE
         IN BitOr(tr.split_mask[l][1], OrOfMasks(tr, L \ {l}))

\* no two leaves carry the same taxon
DistinctLeafTaxa(tr) ==
    \A a, b \in LeavesOf(tr) :
        (a # b /\ tr.taxon[a] # <<>> /\ tr.taxon[b] # <<>>) => tr.taxon[a] # tr.taxon[b]

\* no taxon bit is set by two different leaf edges
LeafBitsDisjoint(tr) ==
    \A a, b \in LeavesOf(tr) :
        a # b => BitsOf(tr.split_mask[a][1]) \cap BitsOf(tr.split_mask[b][1]) = {}

\* C9 as stated: over the leaf edges of an encoded tree in its unrooted view, the OR
\* of the leaf masks is the registry's full mask and no bit is set by two leaf edges.
C9_LeafMasksPartitionRegistry ==
    EncodedUnrooted =>
        /\ OrOfMasks(tree, LeavesOf(tree)) = FullMask
        /\ LeafBitsDisjoint(tree)

\* C9 amended: over the leaf edges of an encoded tree in its unrooted view, the OR of
\* the leaf masks is the set of bits of the taxa the leaves carry: a subset of the
\* full mask, equal to it exactly when every registered taxon is on a leaf (trees
\* with incomplete leaf sets stay below it); no bit is set by two leaf edges when no
\* two leaves carry the same taxon.
C9_LeafMasksPartitionLeafTaxa ==
    EncodedUnrooted =>
        LET all == OrOfMasks(tree, LeavesOf(tree))
            carried == {tree.taxon[l][1] : l \in {x \in LeavesOf(tree) : tree.taxon[x] # <<>>}}
        IN /\ BitsOf(all) = TaxonBits(tree, LeavesOf(tree))
           /\ BitsOf(all) \subseteq BitsOf(FullMask)
           /\ (all = FullMask) <=> (\A i \in 1..Len(taxa_block) : taxa_block[i] \in carried)
           /\ DistinctLeafTaxa(tree) => LeafBitsDisjoint(tree)

\* an encoded unrooted tree with an incomplete leaf set: A, B and C, but no D
C9_Witness ==
    /\ EncodedUnrooted
    /\ DistinctLeafTaxa(tree)
    /\ OrOfMasks(tree, LeavesOf(tree)) = 7
    /\ Cardinality({l \in LeavesOf(tree) : tree.taxon[l] # <<>>}) = 3

\* C10: every key of the split-edge map and of the complement map of an encoded tree
\* lies in [0, 2^N), N the number of taxa of the registry.
C10_MasksInRange ==
    Encoded =>
        \A m \in (DOMAIN tree.split_edges[1]) \cup (DOMAIN tree.complemented_split_edges[1])
                 \cup tree.splits[1] \cup tree.complemented_splits[1] :
            0 <= m /\ m < 2 ^ Len(taxa_block)

\* an encoded tree whose root edge has the largest mask and whose complement is 0
C10_Witness ==
    /\ Encoded
    /\ (2 ^ Len(taxa_block)) - 1 \in DOMAIN tree.split_edges[1]
    /\ 0 \in DOMAIN tree.complemented_split_edges[1]
    /\ 10 \in DOMAIN tree.split_edges[1]
    /\ 5 \in DOMAIN tree.complemented_split_edges[1]

\* C11: after encode_splits the complemented splits are exactly the splits XOR-ed
\* with the registry's full mask (every taxon bit flipped), the complemented map
\* sends the complement of m to the edge the split map sends m to, and the
\* complement of the complement of m is m again.
C11_ComplementsMirrorSplits ==
    Encoded =>
        LET splits == tree.splits[1]
            split_edges == tree.split_edges[1]
            csplits == tree.complemented_splits[1]
            csplit_edges == tree.complemented_split_edges[1]
            Flipped(m) == CHOOSE c \in 0..FullMask :
                              BitsOf(c) = (0..(Len(taxa_block) - 1)) \ BitsOf(m)
        IN /\ csplits = {Flipped(m) : m \in splits}
           /\ DOMAIN csplit_edges = csplits
           /\ \A m \in splits :
                  /\ csplit_edges[Flipped(m)] = split_edges[m]
                  /\ Complement(m, FullMask) = Flipped(m)
                  /\ Complement(Complement(m, FullMask), FullMask) = m

\* an encoded tree whose inner edge B|D is found under 10 and, complemented, under 5
C11_Witness ==
    /\ Encoded
    /\ 10 \in tree.splits[1] /\ 5 \in tree.complemented_splits[1]
    /\ tree.complemented_split_edges[1][5] = tree.split_edges[1][10]
    /\ tree.split_edges[1][10] # tree.root

\* ------------------------------------- the rendering utilities on their own

\* masks 0..MaxMask are handed to the utilities
MaxMask == 31

\* the taxon orders handed to the utilities: the registry, a permutation of it, a
\* registry of two taxa and an empty one
TaxonOrders == {taxa_block, <<"D", "B", "A", "C">>, <<"B", "A">>, <<>>}

\* the characters a caller may pass as symbol1 and symbol2
Symbols == {".", "*", "0", "1"}

\* the arguments are drawn, no utility has been called yet
InitRender ==
    /\ self = SplitDistributionInit
    /\ tree = TreeUnrooted
    /\ calls = [n \in TreeNames |-> 0]
    /\ el_all = TRUE
    /\ \E m \in 0..MaxMask : \E tb \in TaxonOrders : \E s1, s2 \in Symbols :
          /\ s1 # s2
          /\ call = [op |-> "none", pc |-> "ready", split_mask |-> m, taxa_block |-> tb,
                     symbol1 |-> s1, symbol2 |-> s2, out |-> <<>>]

\* is_non_singleton_split(split_mask)
CallIsNonSingletonSplit ==
    /\ call.pc = "ready"
    /\ call' = [call EXCEPT !.op = "is_non_singleton_split", !.pc = "returned",
                            !.out = is_non_singleton_split(call.split_mask)]
    /\ UNCHANGED <<self, tree, calls, el_all>>

\* split_taxa_list(split_mask, taxa_block): returns the list or raises IndexError
CallSplitTaxaList ==
    /\ call.pc = "ready"
    /\ call' = IF split_taxa_list_raises(call.split_mask, call.taxa_block, 0)
               THEN [call EXCEPT !.op = "split_taxa_list", !.pc = "raised"]
               ELSE [call EXCEPT !.op = "split_taxa_list", !.pc = "returned",
                                 !.out = split_taxa_list(call.split_mask, call.taxa_block, 0)]
    /\ UNCHANGED <<self, tree, calls, el_all>>

\* split_as_string(split_mask, taxa_block, symbol1, symbol2)
CallSplitAsString ==
    /\ call.pc = "ready"
    /\ call' = [call EXCEPT !.op = "split_as_string", !.pc = "returned",
                   !.out = split_as_string(call.split_mask, call.taxa_block,
                                           call.symbol1, call.symbol2)]
    /\ UNCHANGED <<self, tree, calls, el_all>>

\* split_as_string_rev(split_mask, taxa_block, symbol1, symbol2)
CallSplitAsStringRev ==
    /\ call.pc = "ready"
    /\ call' = [call EXCEPT !.op = "split_as_string_rev", !.pc = "returned",
                   !.out = split_as_string_rev(call.split_mask, call.taxa_block,
                                               call.symbol1, call.symbol2)]
    /\ UNCHANGED <<self, tree, calls, el_all>>

NextRender ==
    \/ CallIsNonSingletonSplit
    \/ CallSplitTaxaList
    \/ CallSplitAsString
    \/ CallSplitAsStringRev

SpecRender == InitRender /\ [][NextRender]_vars

\* the bit of a taxon under a taxon order: 1 shifted by its position in the order
BitUnder(order, taxon) == 2 ^ ((CHOOSE i \in 1..Len(order) : order[i] = taxon) - 1)

RECURSIVE ReEncoded(_, _)
\* the OR of the single-bit masks of the taxa in a list, under a taxon order
ReEncoded(order, taxa) ==
    IF taxa = <<>> THEN 0
    ELSE BitOr(BitUnder(order, Head(taxa)), ReEncoded(order, Tail(taxa)))

\* the list split_taxa_list returned holds the taxa at the set bits of the mask, in
\* increasing bit order, and their bits OR-ed together give the mask back
RoundTrips ==
    LET m == call.split_mask
        order == call.taxa_block
        bits == SortedSeq(BitsOf(m))
    IN /\ call.pc = "returned"
       /\ Len(call.out) = Len(bits)
       /\ \A k \in 1..Len(bits) : bits[k] < Len(order) /\ call.out[k] = order[bits[k] + 1]
       /\ ReEncoded(order, call.out) = m

\* C12 as stated: for any mask and any taxon order, split_taxa_list returns the taxa
\* at the set bits of the mask in increasing bit order, and OR-ing their single-bit
\* masks reproduces the mask.
C12_RoundTripForAnyMask ==
    call.op = "split_taxa_list" => RoundTrips

\* C12, amended: the round trip holds for every mask below 2^N, N the length of the
\* taxon order; a mask with a bit set at or above N makes split_taxa_list raise
\* IndexError, and nothing is returned.
C12_RoundTripForMasksOfTheOrder ==
    call.op = "split_taxa_list" =>
        IF call.split_mask < 2 ^ Len(call.taxa_block)
        THEN RoundTrips
        ELSE call.pc = "raised" /\ call.out = <<>>

\* split_taxa_list(10, <<D,B,A,C>>) returned <<B,C>>
C12_Witness ==
    /\ call.op = "split_taxa_list" /\ call.pc = "returned"
    /\ call.split_mask = 10 /\ call.taxa_block = <<"D", "B", "A", "C">>
    /\ call.out = <<"B", "C">>

\* C13: is_non_singleton_split(mask) is falsy exactly when mask is 0 or has a single
\* bit set, and truthy whenever two or more bits are set.
C13_NonSingletonIffTwoBits ==
    (call.op = "is_non_singleton_split" /\ call.pc = "returned") =>
        LET n == Cardinality(BitsOf(call.split_mask))
        IN /\ (call.out = 0) <=> (call.split_mask = 0 \/ n = 1)
           /\ n >= 2 => call.out # 0

\* is_non_singleton_split(7), three bits set, returned 6
C13_Witness ==
    /\ call.op = "is_non_singleton_split" /\ call.pc = "returned"
    /\ call.split_mask = 7 /\ call.out = 6

\* C14: split_as_string renders a mask of the registry (a mask below 2^width, width
\* the number of registered taxa) as a string of exactly width characters, the
\* character at position width-1-i from the left being the present symbol (symbol2)
\* iff bit i of the mask is set; mask 0 renders as width absent symbols (symbol1).
\* The two symbols are different characters.
C14_RenderedWidthAndSymbols ==
    (/\ call.op = "split_as_string" /\ call.pc = "returned"
     /\ call.split_mask < 2 ^ Len(call.taxa_block)) =>
        LET width == Len(call.taxa_block) IN
        /\ Len(call.out) = width
        /\ \A i \in 0..(width - 1) :
               (call.out[width - i] = call.symbol2) <=> (i \in BitsOf(call.split_mask))
        /\ call.split_mask = 0 => \A i \in 1..width : call.out[i] = call.symbol1

\* the count map new holds every key of old with a count at least as large
CountsGrow(old, new) ==
    /\ DOMAIN old \subseteq DOMAIN new
    /\ \A m \in DOMAIN old : new[m] >= old[m]

\* the sample map new holds every key of old, its list extended at the end or unchanged
SamplesGrow(old, new) ==
    /\ DOMAIN old \subseteq DOMAIN new
    /\ \A m \in DOMAIN old :
           /\ Len(new[m]) >= Len(old[m])
           /\ SubSeq(new[m], 1, Len(old[m])) = old[m]

\* C15: the aggregator only grows: in every step no key leaves split_counts,
\* complemented_split_counts, split_edge_lengths or split_node_ages, no count
\* decreases, no sample list shrinks, and total_trees_counted never decreases.
C15_AggregatorOnlyGrows ==
    [][/\ CountsGrow(self.split_counts, self'.split_counts)
       /\ CountsGrow(self.complemented_split_counts, self'.complemented_split_counts)
       /\ SamplesGrow(self.split_edge_lengths, self'.split_edge_lengths)
       /\ SamplesGrow(self.split_node_ages, self'.split_node_ages)
       /\ self'.total_trees_counted >= self.total_trees_counted]_vars

\* three trees were counted, one split was met in each of them and carries three
\* samples of each kind, and one complemented split was met three times
C15_Witness ==
    /\ self.total_trees_counted = 3
    /\ \E m \in DOMAIN self.split_counts :
           /\ self.split_counts[m] = 3
           /\ m \in DOMAIN self.split_edge_lengths /\ Len(self.split_edge_lengths[m]) = 3
           /\ m \in DOMAIN self.split_node_ages /\ Len(self.split_node_ages[m]) = 3
    /\ \E c \in DOMAIN self.complemented_split_counts : self.complemented_split_counts[c] = 3

\* ------------------------------- the loops of the utilities, step by step

\* faulty variant: a cleared bit skips the rest of the loop body, the shift included
split_taxa_list_step_SkipsShift(c) ==
    IF c.num = 0 THEN [c EXCEPT !.pc = "returned"]
    ELSE IF c.num % 2 = 0 THEN c
    ELSE IF c.index >= Len(c.taxa_block) THEN [c EXCEPT !.pc = "raised"]
    ELSE [c EXCEPT !.out = Append(@, c.taxa_block[c.index + 1]),
                   !.num = @ \div 2, !.index = @ + 1]

\* lines 71-76: one test of `while split_mask` and, when it holds, one pass through
\* the loop body; c.num is the local split_mask, shifted right as the loop goes on
split_taxa_list_step(c) ==
    IF c.num = 0 THEN [c EXCEPT !.pc = "returned"]
    ELSE IF c.num % 2 = 1 /\ c.index >= Len(c.taxa_block) THEN [c EXCEPT !.pc = "raised"]
    ELSE [c EXCEPT !.out = IF c.num % 2 = 1 THEN Append(@, c.taxa_block[c.index + 1]) ELSE @,
                   !.num = @ \div 2, !.index = @ + 1]

\* line 47: one step of the recursion: while running, the frame in hand either calls
\* itself on num >> 1 (its own num waits in c.frames) or returns ''; while unwinding,
\* the innermost waiting frame appends str(num & 1) and returns
number_to_bitstring_step(c) ==
    IF c.pc = "running"
    THEN IF c.num > 0 THEN [c EXCEPT !.frames = Append(@, c.num), !.num = @ \div 2]
         ELSE [c EXCEPT !.pc = "unwinding"]
    ELSE IF c.frames = <<>> THEN [c EXCEPT !.pc = "returned"]
         ELSE LET n == c.frames[Len(c.frames)]
              IN [c EXCEPT !.out = Append(@, IF n % 2 = 1 THEN "1" ELSE "0"),
                           !.frames = SubSeq(@, 1, Len(@) - 1)]

\* a call of one of the two utilities has just been made; the arguments include
\* mask 0, masks with bits at or above the width of the taxa block, and -1
InitLoops ==
    /\ self = SplitDistributionInit
    /\ tree = TreeUnrooted
    /\ calls = [n \in TreeNames |-> 0]
    /\ el_all = TRUE
    /\ \E m \in (-1)..MaxMask : \E tb \in TaxonOrders :
       \E f \in {"split_taxa_list", "number_to_bitstring"} :
          call = [op |-> f, pc |-> "running", split_mask |-> m, taxa_block |-> tb,
                  num |-> m, index |-> 0, frames |-> <<>>, out |-> <<>>]

\* the call of split_taxa_list goes on by one iteration
StepSplitTaxaList ==
    /\ call.op = "split_taxa_list" /\ call.pc = "running"
    /\ call' = split_taxa_list_step(call)
    /\ UNCHANGED <<self, tree, calls, el_all>>

\* the call of number_to_bitstring goes on by one recursive call or return
StepNumberToBitstring ==
    /\ call.op = "number_to_bitstring" /\ call.pc \in {"running", "unwinding"}
    /\ call' = number_to_bitstring_step(call)
    /\ UNCHANGED <<self, tree, calls, el_all>>

NextLoops ==
    \/ StepSplitTaxaList
    \/ StepNumberToBitstring

\* the interpreter runs a call that is under way: single-threaded, nothing blocks
SpecLoops == InitLoops /\ [][NextLoops]_vars /\ WF_vars(NextLoops)

\* a call that has returned holds what the function returns
ReturnsTheResult ==
    call.pc = "returned" =>
        /\ call.op = "split_taxa_list" =>
               /\ ~split_taxa_list_raises(call.split_mask, call.taxa_block, 0)
               /\ call.out = split_taxa_list(call.split_mask, call.taxa_block, 0)
        /\ call.op = "number_to_bitstring" => call.out = number_to_bitstring(call.split_mask)

\* C16: every call of number_to_bitstring and of split_taxa_list comes to an end,
\* whatever the mask (0 and masks with bits at or above the width of the taxa block
\* included): it returns the function's result, or split_taxa_list raises IndexError.
C16_EveryCallTerminates ==
    /\ <>(call.pc \in {"returned", "raised"})
    /\ []ReturnsTheResult

\* split_taxa_list was called on a mask with a bit above the four taxa and ended by
\* raising after it had collected the taxa of the bits below
C16_Witness ==
    /\ call.op = "split_taxa_list" /\ call.pc = "raised"
    /\ call.split_mask = 19 /\ call.taxa_block = taxa_block
    /\ call.out = <<"A", "B">>

\* the mask whose set bits are the taxa of the labelled leaves at or below node v
MaskBelow(tr, v) ==
    LET bits == TaxonBits(tr, LeavesBelow(tr, v))
    IN SumOver([i \in bits |-> 2 ^ i], bits)

\* per tree of the catalogue, the children lists of its unrooted view
DerootedChildren == [n \in TreeNames |-> deroot(TreeNamed(n)).children]

EdgesWithMask(tr, m) == {v \in NodesOf(tr) : tr.split_mask[v] = <<m>>}

\* among the edges in E, the one the traversal visits last
LastVisited(order, E) ==
    CHOOSE v \in E : \A w \in E : PositionIn(order, w) <= PositionIn(order, v)

\* C18: after a count the split-edge map of the tree has exactly one entry per
\* distinct mask of its edges; where several edges carry one mask, the entry is the
\* edge visited last in postorder; and the edge-length sample the count appended for
\* the mask is the length of that edge (0 when it has none).
C18_LaterWriterWins ==
    LastCountSucceeded =>
        LET split_edges == tree.split_edges[1]
            order == postorder_edge_iter(tree)
        IN
        /\ DOMAIN split_edges = {tree.split_mask[v][1] : v \in NodesOf(tree)}
        /\ \A m \in DOMAIN split_edges :
               LET last == LastVisited(order, EdgesWithMask(tree, m))
                   length == tree.length[last]
               IN /\ split_edges[m] = last
                  /\ el_all =>
                         LET samples == self.split_edge_lengths[m]
                         IN samples[Len(samples)] = IF length # <<>> THEN length[1] ELSE 0

\* (A,((B,D):2):3,C) was counted: the edges 5 and 3 both carry mask 10, the map
\* holds edge 3, visited after edge 5, and the sample is its length 3
C18_Witness ==
    /\ LastCountSucceeded /\ el_all
    /\ tree.name = "doubled"
    /\ EdgesWithMask(tree, 10) = {3, 5}
    /\ PositionIn(postorder_edge_iter(tree), 5) < PositionIn(postorder_edge_iter(tree), 3)
    /\ tree.split_edges[1][10] = 3
    /\ self.split_edge_lengths[10][Len(self.split_edge_lengths[10])] = 3

\* the leaves of the tree that carry no taxon
UnlabelledLeaves(tr) == {l \in LeavesOf(tr) : tr.taxon[l] = <<>>}

\* C19: after a count of a tree with a leaf without taxon, the edge of that leaf
\* carries mask 0, every edge's mask is still exactly the set of taxon bits of the
\* labelled leaves below it (the leaf changed no other mask), and the split counts
\* hold no entry for mask 0.
C19_UnlabelledLeafContributesNothing ==
    (LastCountSucceeded /\ UnlabelledLeaves(tree) # {}) =>
        /\ \A l \in UnlabelledLeaves(tree) : tree.split_mask[l] = <<0>>
        /\ \A v \in NodesOf(tree) :
               BitsOf(tree.split_mask[v][1]) = TaxonBits(tree, LeavesBelow(tree, v))
        /\ 0 \notin DOMAIN self.split_counts

\* a leaf of the tree carries a taxon the registry does not hold
HasUnregisteredLeaf(tr) ==
    \E l \in LeavesOf(tr) :
        /\ tr.taxon[l] # <<>>
        /\ \A i \in 1..Len(taxa_block) : taxa_block[i] # tr.taxon[l][1]

\* C20: encode_splits on a tree with a leaf whose taxon the registry does not hold
\* raises, so no split map is returned, and no call has attached splits, split_edges,
\* split_taxa, complemented_splits or complemented_split_edges to such a tree.
C20_AbortAttachesNothing ==
    HasUnregisteredLeaf(tree) =>
        /\ ~encode_splits(tree, taxa_block, TRUE).ok
        /\ tree.splits = <<>>
        /\ tree.split_edges = <<>>
        /\ tree.split_taxa = <<>>
        /\ tree.complemented_splits = <<>>
        /\ tree.complemented_split_edges = <<>>

\* encode_splits was called on (A,X,B): the edge of A got its mask before the call
\* raised at X, the edge of B and the root edge got none, and nothing is attached
C20_Witness ==
    /\ tree.name = "unregistered"
    /\ tree.split_mask[2] = <<1>>
    /\ tree.split_mask[3] = <<>> /\ tree.split_mask[4] = <<>> /\ tree.split_mask[1] = <<>>
    /\ tree.splits = <<>> /\ tree.split_edges = <<>>

\* the trees of the catalogue on which count_splits_on_tree succeeds
CountableTrees == {n \in TreeNames : NormalizeOk(TreeNamed(n), taxa_block)}

\* the number of calls of count_splits_on_tree so far that succeeded
SuccessfulCalls == SumOver(calls, CountableTrees)

\* the fraction q = <<num, den>> lies in [0, 1]
InUnitInterval(q) == q[2] > 0 /\ 0 <= q[1] /\ q[1] <= q[2]

\* C21: a call of count_splits_on_tree adds at most one to the count of a split,
\* also when several edges of the tree carry it, so no count and no complement count
\* exceeds the number of calls that succeeded, hence none exceeds
\* total_trees_counted; and every value split_frequencies and
\* complemented_split_frequencies return lies in [0, 1].
C21_CountsBoundedByTotal ==
    LET succeeded == SuccessfulCalls IN
    /\ succeeded <= self.total_trees_counted
    /\ \A m \in DOMAIN self.split_counts :
           /\ self.split_counts[m] >= 1
           /\ self.split_counts[m] <= succeeded
    /\ \A c \in DOMAIN self.complemented_split_counts :
           /\ self.complemented_split_counts[c] >= 1
           /\ self.complemented_split_counts[c] <= succeeded
    /\ LET freqs == get_split_frequencies(self).ret
       IN \A m \in DOMAIN freqs : InUnitInterval(freqs[m])
    /\ LET cfreqs == get_complemented_split_frequencies(self).ret
       IN \A c \in DOMAIN cfreqs : InUnitInterval(cfreqs[c])

\* three trees were counted, (A,((B,D):2):3,C) with its two edges of mask 10 last:
\* the split 10 was met in two of them and is reported with frequency 2/3, as is
\* its complement 5, and the split 1 was met in all three and is reported with 1
C21_Witness ==
    /\ LastCountSucceeded
    /\ tree.name = "doubled" /\ EdgesWithMask(tree, 10) = {3, 5}
    /\ self.total_trees_counted = 3
    /\ self.split_counts[10] = 2
    /\ get_split_frequencies(self).ret[10] = <<2, 3>>
    /\ get_complemented_split_frequencies(self).ret[5] = <<2, 3>>
    /\ self.split_counts[1] = 3
    /\ get_split_frequencies(self).ret[1] = <<1, 1>>

====
